---- MODULE Spec2Model ----
(***************************************************************************)
(* VGA text-mode console and stdin ring buffer of                          *)
(* modules/axhal/src/platform/x86_pc/vga_buffer.rs.                        *)
(*                                                                         *)
(* The console (static VGA) is the record vga; the ring buffer (static     *)
(* STDIN_BUFFER) is the record stdin.  Every caller p has a program        *)
(* counter pc[p] and a call frame fr[p]; the free function putchar and     *)
(* print_debug are split at their lock acquisitions and at the point       *)
(* between the cursor advance and the scroll, everything else a call does  *)
(* under the lock is one step.                                             *)
(***************************************************************************)
EXTENDS Integers, Sequences, FiniteSets, TLC

VARIABLES vga,          \* VgaTextMode behind VGA (fields as in the struct, chars = the mapped grid)
          vga_lock,     \* holder of the SpinNoIrq around VGA, 0 when free
          LEVEL_DEBUG,  \* static mut LEVEL_DEBUG
          stdin,        \* StdinBuffer behind STDIN_BUFFER
          pc,           \* per caller: where it is in the code
          fr,           \* per caller: the locals of the call in progress
          fault,        \* "none", or the panic that halted the kernel
          ncalls,       \* number of top-level calls made so far (bounded)
          fifo,         \* history: bytes accepted by push and not yet popped, oldest first
          last,         \* history: what the last ring buffer or set_max_level call did
          hist          \* history: the escape sequence and the line being written

vars == <<vga, vga_lock, LEVEL_DEBUG, stdin, pc, fr, fault, ncalls, fifo, last, hist>>

(***************************************************************************)
(* Sizes.  The grid and the ring buffer are scaled down from 25 x 80 and   *)
(* 1024; the code is uniform in them.                                      *)
(***************************************************************************)
VGA_BUFFER_HEIGHT == 3
VGA_BUFFER_WIDTH == 2
STDIN_BUFFER_SIZE == 3
MaxCalls == 7

\* the execution contexts that may call in; Solo is one of them calling alone
Procs == {1, 2}
Solo == {1}

U8 == 256

\* bytes
ESC == 27
LF == 10
CR == 13
BS == 8
SPACE == 32
LBRACKET == 91
CH_m == 109
CH_0 == 48
CH_9 == 57

IsDigit(ch) == ch >= CH_0 /\ ch <= CH_9

(***************************************************************************)
(* Colour model                                                            *)
(***************************************************************************)
VgaTextColor ==
    [Black |-> 0, Blue |-> 1, Green |-> 2, Cyan |-> 3, Red |-> 4, Purple |-> 5,
     Brown |-> 6, Gray |-> 7, DarkGray |-> 8, LightBlue |-> 9, LightGreen |-> 10,
     LightCyan |-> 11, LightRed |-> 12, LightPurple |-> 13, Yellow |-> 14,
     White |-> 15]

from_console_color(color) ==
    CASE color = "Black" -> VgaTextColor.Black
      [] color = "Red" -> VgaTextColor.Red
      [] color = "Green" -> VgaTextColor.Green
      [] color = "Yellow" -> VgaTextColor.Brown
      [] color = "Blue" -> VgaTextColor.Blue
      [] color = "Magenta" -> VgaTextColor.Purple
      [] color = "Cyan" -> VgaTextColor.Cyan
      [] color = "White" -> VgaTextColor.Gray
      [] color = "BrightBlack" -> VgaTextColor.Gray
      [] color = "BrightRed" -> VgaTextColor.LightRed
      [] color = "BrightGreen" -> VgaTextColor.LightGreen
      [] color = "BrightYellow" -> VgaTextColor.Yellow
      [] color = "BrightBlue" -> VgaTextColor.LightBlue
      [] color = "BrightMagenta" -> VgaTextColor.LightPurple
      [] color = "BrightCyan" -> VgaTextColor.LightCyan
      [] color = "BrightWhite" -> VgaTextColor.White

\* (bg as u8) << 4 | (fg as u8), in 8 bits
VgaTextColorCode_new(fg, bg) == ((bg * 16) % U8) + fg

\* axlog::ColorCode: u8 -> logical colour (the SGR numbers 30..37, 90..97), "None" otherwise
ConsoleColorCode_try_from(v) ==
    CASE v = 30 -> "Black"
      [] v = 31 -> "Red"
      [] v = 32 -> "Green"
      [] v = 33 -> "Yellow"
      [] v = 34 -> "Blue"
      [] v = 35 -> "Magenta"
      [] v = 36 -> "Cyan"
      [] v = 37 -> "White"
      [] v = 90 -> "BrightBlack"
      [] v = 91 -> "BrightRed"
      [] v = 92 -> "BrightGreen"
      [] v = 93 -> "BrightYellow"
      [] v = 94 -> "BrightBlue"
      [] v = 95 -> "BrightMagenta"
      [] v = 96 -> "BrightCyan"
      [] v = 97 -> "BrightWhite"
      [] OTHER -> "None"

DefaultColor == VgaTextColorCode_new(VgaTextColor.White, VgaTextColor.Black)

VgaTextChar(ch, color) == [ch |-> ch, color |-> color]

(***************************************************************************)
(* Interpreter state: VgaTextState / VgaTextSetColor, v used by Value only *)
(***************************************************************************)
St(k) == [k |-> k, v |-> 0]
PutChar == St("PutChar")
Start == St("Start")
LeftBrackets == St("LeftBrackets")
End == St("End")
Value(v) == [k |-> "Value", v |-> v]

Rows == 0 .. (VGA_BUFFER_HEIGHT - 1)
Cols == 0 .. (VGA_BUFFER_WIDTH - 1)

\* Option<T>
None == <<>>
Some(x) == <<x>>
unwrap_or(o, d) == IF o = None THEN d ELSE o[1]

\* VgaTextMode::set_color
set_color(v, color) ==
    [v EXCEPT !.current_color =
        unwrap_or(color, VgaTextColorCode_new(VgaTextColor.White, VgaTextColor.Black))]

\* the u8 product and sum of the Value arm leave 8 bits
value_overflows(v, ch) ==
    /\ v.state.k = "Value"
    /\ IsDigit(ch)
    /\ v.state.v * 10 + (ch - CH_0) >= U8

\* process_char whose abort arms go back to Start, swallowing the byte
process_char_swallows(v, ch) ==
    CASE v.state.k = "PutChar" ->
            IF ch = ESC THEN [v EXCEPT !.state = Start] ELSE v
      [] v.state.k = "Start" ->
            IF ch = LBRACKET THEN [v EXCEPT !.state = LeftBrackets]
            ELSE [v EXCEPT !.state = End]
      [] v.state.k = "LeftBrackets" ->
            IF ch = CH_m THEN [set_color(v, None) EXCEPT !.state = End]
            ELSE IF IsDigit(ch) THEN [v EXCEPT !.state = Value(ch - CH_0)]
            ELSE [v EXCEPT !.state = End]
      [] v.state.k = "Value" ->
            IF ch = CH_m THEN
                LET c == ConsoleColorCode_try_from(v.state.v)
                    color == IF c = "None" THEN None
                             ELSE Some(VgaTextColorCode_new(from_console_color(c),
                                                            VgaTextColor.Black))
                IN [set_color(v, color) EXCEPT !.state = End]
            ELSE IF IsDigit(ch) THEN
                [v EXCEPT !.state = Value((v.state.v * 10 + (ch - CH_0)) % U8)]
            ELSE [v EXCEPT !.state = End]
      [] v.state.k = "End" ->
            IF ch = ESC THEN [v EXCEPT !.state = Start]
            ELSE [v EXCEPT !.state = PutChar]


\* process_char that maps the value's last digit, not the value, to a colour
process_char_last_digit(v, ch) ==
    CASE v.state.k = "PutChar" ->
            IF ch = ESC THEN [v EXCEPT !.state = Start] ELSE v
      [] v.state.k = "Start" ->
            IF ch = LBRACKET THEN [v EXCEPT !.state = LeftBrackets]
            ELSE [v EXCEPT !.state = PutChar]
      [] v.state.k = "LeftBrackets" ->
            IF ch = CH_m THEN [set_color(v, None) EXCEPT !.state = End]
            ELSE IF IsDigit(ch) THEN [v EXCEPT !.state = Value(ch - CH_0)]
            ELSE [v EXCEPT !.state = PutChar]
      [] v.state.k = "Value" ->
            IF ch = CH_m THEN
                LET c == ConsoleColorCode_try_from(v.state.v % 10)
                    color == IF c = "None" THEN None
                             ELSE Some(VgaTextColorCode_new(from_console_color(c),
                                                            VgaTextColor.Black))
                IN [set_color(v, color) EXCEPT !.state = End]
            ELSE IF IsDigit(ch) THEN
                [v EXCEPT !.state = Value((v.state.v * 10 + (ch - CH_0)) % U8)]
            ELSE [v EXCEPT !.state = PutChar]
      [] v.state.k = "End" ->
            IF ch = ESC THEN [v EXCEPT !.state = Start]
            ELSE [v EXCEPT !.state = PutChar]


\* VgaTextMode::process_char, the arithmetic wrapping at 8 bits
process_char(v, ch) ==
    CASE v.state.k = "PutChar" ->
            IF ch = ESC THEN [v EXCEPT !.state = Start] ELSE v
      [] v.state.k = "Start" ->
            IF ch = LBRACKET THEN [v EXCEPT !.state = LeftBrackets]
            ELSE [v EXCEPT !.state = PutChar]
      [] v.state.k = "LeftBrackets" ->
            IF ch = CH_m THEN [set_color(v, None) EXCEPT !.state = End]
            ELSE IF IsDigit(ch) THEN [v EXCEPT !.state = Value(ch - CH_0)]
            ELSE [v EXCEPT !.state = PutChar]
      [] v.state.k = "Value" ->
            IF ch = CH_m THEN
                LET c == ConsoleColorCode_try_from(v.state.v)
                    color == IF c = "None" THEN None
                             ELSE Some(VgaTextColorCode_new(from_console_color(c),
                                                            VgaTextColor.Black))
                IN [set_color(v, color) EXCEPT !.state = End]
            ELSE IF IsDigit(ch) THEN
                [v EXCEPT !.state = Value((v.state.v * 10 + (ch - CH_0)) % U8)]
            ELSE [v EXCEPT !.state = PutChar]
      [] v.state.k = "End" ->
            IF ch = ESC THEN [v EXCEPT !.state = Start]
            ELSE [v EXCEPT !.state = PutChar]


(***************************************************************************)
(* Console device: VgaTextMode::putchar and scroll_up                      *)
(***************************************************************************)
SIZE_OF_VgaTextChar == 2

\* what the memory behind the grid may hold when the copy reads it
BeyondCells == {VgaTextChar(0, 0), VgaTextChar(SPACE, VgaTextColor.Gray)}

GridCells == VGA_BUFFER_HEIGHT * VGA_BUFFER_WIDTH

\* the number of elements handed to core::ptr::copy
scroll_count(line) == (VGA_BUFFER_HEIGHT - line) * VGA_BUFFER_WIDTH * SIZE_OF_VgaTextChar

\* the cells behind the grid that the copy moves into the grid
BeyondRead(line) ==
    LET past == scroll_count(line) + line * VGA_BUFFER_WIDTH - GridCells
        n == IF past < line * VGA_BUFFER_WIDTH THEN past ELSE line * VGA_BUFFER_WIDTH
    IN 0 .. (n - 1)

\* element i counted from &buffer[0][0]; beyond holds the memory after the grid
CellAt(chars, beyond, i) ==
    IF i < GridCells THEN chars[i \div VGA_BUFFER_WIDTH][i % VGA_BUFFER_WIDTH]
    ELSE beyond[i - GridCells]

\* &buffer[line][0] is a checked index
scroll_faults(line) == line = VGA_BUFFER_HEIGHT

\* scroll_up that copies from &buffer[0][0], moving nothing
scroll_up_from_row0(v, line, beyond) ==
    IF line > VGA_BUFFER_HEIGHT THEN v
    ELSE [v EXCEPT !.current_y = @ - line]

\* scroll_up that moves the rows and forgets self.current_y -= line
scroll_up_keeps_y(v, line, beyond) ==
    IF line > VGA_BUFFER_HEIGHT THEN v
    ELSE [v EXCEPT
            !.chars = [r \in Rows |-> [c \in Cols |->
                LET i == r * VGA_BUFFER_WIDTH + c
                IN IF i < scroll_count(line)
                   THEN CellAt(v.chars, beyond, i + line * VGA_BUFFER_WIDTH)
                   ELSE v.chars[r][c]]]]

\* VgaTextMode::scroll_up: core::ptr::copy(src, dst, size) is a memmove of size elements
scroll_up(v, line, beyond) ==
    IF line > VGA_BUFFER_HEIGHT THEN v
    ELSE [v EXCEPT
            !.chars = [r \in Rows |-> [c \in Cols |->
                LET i == r * VGA_BUFFER_WIDTH + c
                IN IF i < scroll_count(line)
                   THEN CellAt(v.chars, beyond, i + line * VGA_BUFFER_WIDTH)
                   ELSE v.chars[r][c]]],
            !.current_y = @ - line]

\* the panic of VgaTextMode::putchar's match, "none" when it runs through
putchar_faults(v, ch) ==
    CASE ch = CR -> "none"
      [] ch = LF -> "none"
      [] ch = BS ->
            IF v.current_x = 0 THEN "backspace"
            ELSE IF v.current_y \in Rows /\ (v.current_x - 1) \in Cols THEN "none"
            ELSE "index"
      [] OTHER ->
            IF v.current_y \in Rows /\ v.current_x \in Cols THEN "none" ELSE "index"

\* VgaTextMode::putchar, the match on ch
putchar_match(v, ch) ==
    CASE ch = CR -> [v EXCEPT !.current_x = 0]
      [] ch = LF -> [v EXCEPT !.current_x = 0, !.current_y = @ + 1]
      [] ch = BS ->
            [v EXCEPT !.current_x = @ - 1,
                      !.chars[v.current_y][v.current_x - 1] =
                            VgaTextChar(SPACE, v.current_color)]
      [] OTHER ->
            [v EXCEPT !.chars[v.current_y][v.current_x] = VgaTextChar(ch, v.current_color),
                      !.current_x = @ + 1]

\* the wrap with > for >=
putchar_wrap_late(v) ==
    IF v.current_x > VGA_BUFFER_WIDTH
    THEN [v EXCEPT !.current_x = 0, !.current_y = @ + 1]
    ELSE v

\* VgaTextMode::putchar, the wrap after the match
putchar_wrap(v) ==
    IF v.current_x >= VGA_BUFFER_WIDTH
    THEN [v EXCEPT !.current_x = 0, !.current_y = @ + 1]
    ELSE v

\* VgaTextMode::putchar, the argument of its scroll_up call
scroll_lines(v) == v.current_y - VGA_BUFFER_HEIGHT + 1

(***************************************************************************)
(* Ring buffer: StdinBuffer                                                *)
(***************************************************************************)
Slots == 0 .. (STDIN_BUFFER_SIZE - 1)

\* push that overwrites the oldest byte of a full buffer
push_evicts(s, data) ==
    IF s.size < STDIN_BUFFER_SIZE
    THEN [s EXCEPT !.buffer[s.tail] = data,
                   !.tail = (s.tail + 1) % STDIN_BUFFER_SIZE,
                   !.size = @ + 1]
    ELSE [s EXCEPT !.buffer[s.tail] = data,
                   !.tail = (s.tail + 1) % STDIN_BUFFER_SIZE,
                   !.head = (s.head + 1) % STDIN_BUFFER_SIZE]

\* push that advances tail without the modulo
push_no_wrap(s, data) ==
    IF s.size < STDIN_BUFFER_SIZE
    THEN [s EXCEPT !.buffer[s.tail % STDIN_BUFFER_SIZE] = data,
                   !.tail = s.tail + 1,
                   !.size = @ + 1]
    ELSE s

\* StdinBuffer::push
push(s, data) ==
    IF s.size < STDIN_BUFFER_SIZE
    THEN [s EXCEPT !.buffer[s.tail] = data,
                   !.tail = (s.tail + 1) % STDIN_BUFFER_SIZE,
                   !.size = @ + 1]
    ELSE s

\* StdinBuffer::pop, the buffer it leaves
pop(s) ==
    IF s.size > 0
    THEN [s EXCEPT !.head = (s.head + 1) % STDIN_BUFFER_SIZE, !.size = @ - 1]
    ELSE s

\* pop that returns the newest byte
pop_value_newest(s) ==
    IF s.size > 0
    THEN Some(s.buffer[(s.tail + STDIN_BUFFER_SIZE - 1) % STDIN_BUFFER_SIZE])
    ELSE None

\* StdinBuffer::pop, the value it returns
pop_value(s) == IF s.size > 0 THEN Some(s.buffer[s.head]) ELSE None


(***************************************************************************)
(* Callers.  A frame holds the locals of the call in progress: c is        *)
(* putchar's argument, level and text print_debug's, rest the bytes        *)
(* write_str still has to emit, stage which write_str of print_debug is    *)
(* running ("none" outside print_debug), result the last return value; fn  *)
(* names the function called, vga0 is the console as print_debug found it  *)
(* and max the LEVEL_DEBUG it read (history); v0 is the console as putchar  *)
(* found it when it took the lock, kept until it returns (history).        *)
(***************************************************************************)
\* a byte that VgaTextMode::putchar writes as a glyph
IsGlyph(ch) == ch \notin {CR, LF, BS}

\* a byte that is printed as a glyph from the normal state
IsPrintable(ch) == ch \notin {ESC, CR, LF, BS}

(***************************************************************************)
(* History of the bytes the console has processed.  seq is the prefix      *)
(* ESC '[' d1..dk 'm' x read so far of a sequence that began in the normal *)
(* or the done state, at the console state snap; line is the run of        *)
(* printable bytes written since the cursor stood at column 0 of row y0 in *)
(* the normal state (or the done state, which prints like it).             *)
(***************************************************************************)
NoSnap == [current_x |-> 0, current_y |-> 0, chars |-> <<>>]
Hist0 == [seq |-> <<>>, snap |-> NoSnap, y0 |-> 0, line |-> <<>>]

\* the prefixes of ESC '[' d1..dk 'm' x
SgrPrefix(q) ==
    /\ Len(q) >= 1 /\ q[1] = ESC
    /\ Len(q) >= 2 => q[2] = LBRACKET
    /\ Len(q) >= 3 => IsDigit(q[3])
    /\ \A i \in 4 .. Len(q) :
          \/ IsDigit(q[i]) /\ IsDigit(q[i - 1])
          \/ q[i] = CH_m /\ IsDigit(q[i - 1])
          \/ q[i - 1] = CH_m /\ i = Len(q) /\ q[i] # ESC

hist_seq(h, v, ch) ==
    IF ch = ESC /\ v.state.k \in {"PutChar", "End"}
    THEN [h EXCEPT !.seq = <<ESC>>,
                   !.snap = [current_x |-> v.current_x, current_y |-> v.current_y,
                             chars |-> v.chars]]
    ELSE IF h.seq # <<>> /\ SgrPrefix(Append(h.seq, ch))
    THEN [h EXCEPT !.seq = Append(h.seq, ch)]
    ELSE [h EXCEPT !.seq = <<>>, !.snap = NoSnap]

hist_line(h, v, ch) ==
    IF v.state.k \in {"PutChar", "End"} /\ IsPrintable(ch)
    THEN IF v.current_x = 0 THEN [h EXCEPT !.y0 = v.current_y, !.line = <<ch>>]
         ELSE IF h.line # <<>> THEN [h EXCEPT !.line = Append(h.line, ch)]
         ELSE h
    ELSE [h EXCEPT !.y0 = 0, !.line = <<>>]

\* the history after byte ch was processed from console state v
hist_next(h, v, ch) == hist_line(hist_seq(h, v, ch), v, ch)

Frame0 == [fn |-> "none", c |-> 0, level |-> 0, text |-> <<>>, rest |-> <<>>,
           stage |-> "none", result |-> "none", vga0 |-> <<>>, max |-> 0, v0 |-> <<>>]

\* construction: VgaTextMode::new(), StdinBuffer::new(), LEVEL_DEBUG = 3; the
\* hardware memory holds whatever it held
Init ==
    /\ \E g \in BeyondCells :
         vga = [current_x |-> 0, current_y |-> 0, current_color |-> DefaultColor,
                state |-> PutChar, buffer_init |-> FALSE,
                chars |-> [r \in Rows |-> [c \in Cols |-> g]]]
    /\ vga_lock = 0
    /\ LEVEL_DEBUG = 3
    /\ stdin = [buffer |-> [i \in Slots |-> 0], head |-> 0, tail |-> 0, size |-> 0]
    /\ pc = [p \in Procs |-> "idle"]
    /\ fr = [p \in Procs |-> Frame0]
    /\ fault = "none"
    /\ ncalls = 0
    /\ fifo = <<>>
    /\ last = [op |-> "none", data |-> 0, ret |-> None, exp |-> None]
    /\ hist = Hist0

Running == fault = "none"

\* init_early that binds the grid and leaves the cells as the hardware has them
init_early_no_clear(p) ==
    /\ Running /\ pc[p] = "idle" /\ vga_lock = 0
    /\ ~vga.buffer_init
    /\ vga' = [vga EXCEPT !.buffer_init = TRUE]
    /\ UNCHANGED <<vga_lock, LEVEL_DEBUG, stdin, pc, fr, fault, ncalls, fifo, last, hist>>

\* init_early
init_early(p) ==
    /\ Running /\ pc[p] = "idle" /\ vga_lock = 0
    /\ ~vga.buffer_init
    /\ vga' = [vga EXCEPT !.buffer_init = TRUE,
                          !.chars = [r \in Rows |-> [c \in Cols |->
                                        VgaTextChar(SPACE, vga.current_color)]]]
    /\ UNCHANGED <<vga_lock, LEVEL_DEBUG, stdin, pc, fr, fault, ncalls, fifo, last, hist>>

\* a caller enters putchar(c)
putchar_call(p, c) ==
    /\ Running /\ pc[p] = "idle" /\ vga.buffer_init
    /\ ncalls < MaxCalls
    /\ ncalls' = ncalls + 1
    /\ pc' = [pc EXCEPT ![p] = "putchar_lock"]
    /\ fr' = [fr EXCEPT ![p] = [Frame0 EXCEPT !.fn = "putchar", !.c = c]]
    /\ UNCHANGED <<vga, vga_lock, LEVEL_DEBUG, stdin, fault, fifo, last, hist>>

\* SpinNoIrq::lock
lock_free(p) == vga_lock = 0

\* putchar that goes on without waiting for the lock
putchar_lock_unguarded(p) ==
    /\ Running /\ pc[p] = "putchar_lock"
    /\ vga_lock' = p
    /\ pc' = [pc EXCEPT ![p] = "putchar_body"]
    /\ fr' = [fr EXCEPT ![p].v0 = vga]
    /\ UNCHANGED <<vga, LEVEL_DEBUG, stdin, fault, ncalls, fifo, last, hist>>

\* putchar: let mut vga = VGA.lock()
putchar_lock(p) ==
    /\ Running /\ pc[p] = "putchar_lock"
    /\ lock_free(p)
    /\ vga_lock' = p
    /\ pc' = [pc EXCEPT ![p] = "putchar_body"]
    /\ fr' = [fr EXCEPT ![p].v0 = vga]
    /\ UNCHANGED <<vga, LEVEL_DEBUG, stdin, fault, ncalls, fifo, last, hist>>

\* where putchar returns to, dropping its guard
putchar_return(p) ==
    /\ vga_lock' = 0
    /\ pc' = [pc EXCEPT ![p] = IF fr[p].stage = "none" THEN "idle" ELSE "write_str"]
    /\ fr' = [fr EXCEPT ![p].v0 = <<>>]

\* putchar: process_char, and for a byte that is to be printed VgaTextMode::putchar
\* up to the wrap
putchar_body(p) ==
    /\ Running /\ pc[p] = "putchar_body"
    /\ \/ /\ value_overflows(vga, fr[p].c)      \* overflow checks on: panic
          /\ fault' = "overflow"
          /\ UNCHANGED <<vga, vga_lock, pc, fr, hist>>
       \/ /\ hist' = hist_next(hist, vga, fr[p].c)
          /\ LET v1 == process_char(vga, fr[p].c)
             IN IF v1.state # PutChar
                THEN /\ vga' = v1
                     /\ putchar_return(p)
                     /\ UNCHANGED fault
                ELSE IF putchar_faults(v1, fr[p].c) # "none"
                THEN /\ vga' = v1
                     /\ fault' = putchar_faults(v1, fr[p].c)
                     /\ UNCHANGED <<vga_lock, pc, fr>>
                ELSE /\ vga' = putchar_wrap(putchar_match(v1, fr[p].c))
                     /\ pc' = [pc EXCEPT ![p] = "putchar_clamp"]
                     /\ UNCHANGED <<vga_lock, fr, fault>>
    /\ UNCHANGED <<LEVEL_DEBUG, stdin, ncalls, fifo, last>>

\* the clamp with > for >=
putchar_clamp_late(p) ==
    /\ Running /\ pc[p] = "putchar_clamp"
    /\ IF vga.current_y > VGA_BUFFER_HEIGHT
       THEN IF scroll_faults(scroll_lines(vga))
            THEN /\ fault' = "index"
                 /\ UNCHANGED <<vga, vga_lock, pc, fr>>
            ELSE /\ \E beyond \in [BeyondRead(scroll_lines(vga)) -> BeyondCells] :
                        vga' = scroll_up(vga, scroll_lines(vga), beyond)
                 /\ putchar_return(p)
                 /\ UNCHANGED fault
       ELSE /\ putchar_return(p)
            /\ UNCHANGED <<vga, fault>>
    /\ UNCHANGED <<LEVEL_DEBUG, stdin, ncalls, fifo, last, hist>>

\* VgaTextMode::putchar, the clamp, and putchar's return
putchar_clamp(p) ==
    /\ Running /\ pc[p] = "putchar_clamp"
    /\ IF vga.current_y >= VGA_BUFFER_HEIGHT
       THEN IF scroll_faults(scroll_lines(vga))
            THEN /\ fault' = "index"
                 /\ UNCHANGED <<vga, vga_lock, pc, fr>>
            ELSE /\ \E beyond \in [BeyondRead(scroll_lines(vga)) -> BeyondCells] :
                        vga' = scroll_up(vga, scroll_lines(vga), beyond)
                 /\ putchar_return(p)
                 /\ UNCHANGED fault
       ELSE /\ putchar_return(p)
            /\ UNCHANGED <<vga, fault>>
    /\ UNCHANGED <<LEVEL_DEBUG, stdin, ncalls, fifo, last, hist>>


(***************************************************************************)
(* set_max_level and print_debug                                           *)
(***************************************************************************)
MAX_LEVEL == 3

\* set_max_level that stores whatever it is given
set_max_level_unchecked(p, level) ==
    /\ Running /\ pc[p] = "idle"
    /\ LEVEL_DEBUG' = level
    /\ last' = [op |-> "set_max_level", data |-> level, ret |-> None, exp |-> None]
    /\ UNCHANGED <<vga, vga_lock, stdin, pc, fr, fault, ncalls, fifo, hist>>

\* set_max_level; last records the call (history)
set_max_level(p, level) ==
    /\ Running /\ pc[p] = "idle"
    /\ IF level > MAX_LEVEL
       THEN fault' = "level" /\ UNCHANGED LEVEL_DEBUG
       ELSE LEVEL_DEBUG' = level /\ UNCHANGED fault
    /\ last' = [op |-> "set_max_level", data |-> level, ret |-> None, exp |-> None]
    /\ UNCHANGED <<vga, vga_lock, stdin, pc, fr, ncalls, fifo, hist>>

\* "[INFO]  ", "[DEV]   ", "[DEBUG] "
TagText(level) ==
    CASE level = 1 -> <<91, 73, 78, 70, 79, 93, 32, 32>>
      [] level = 2 -> <<91, 68, 69, 86, 93, 32, 32, 32>>
      [] level = 3 -> <<91, 68, 69, 66, 85, 71, 93, 32>>

TagColor(level) ==
    CASE level = 1 -> VgaTextColorCode_new(VgaTextColor.LightGreen, VgaTextColor.Black)
      [] level = 2 -> VgaTextColorCode_new(VgaTextColor.LightBlue, VgaTextColor.Black)
      [] level = 3 -> VgaTextColorCode_new(VgaTextColor.Yellow, VgaTextColor.Black)

\* a caller enters print_debug(level, args); text is what args formats to
print_debug_call(p, level, text) ==
    /\ Running /\ pc[p] = "idle" /\ vga.buffer_init
    /\ ncalls < MaxCalls
    /\ ncalls' = ncalls + 1
    /\ pc' = [pc EXCEPT ![p] = "print_debug_filter"]
    /\ fr' = [fr EXCEPT ![p] = [Frame0 EXCEPT !.fn = "print_debug", !.level = level,
                                               !.text = text, !.vga0 = vga]]
    /\ UNCHANGED <<vga, vga_lock, LEVEL_DEBUG, stdin, fault, fifo, last, hist>>

\* print_debug that filters on the largest level instead of LEVEL_DEBUG
print_debug_filter_fixed_max(p) ==
    /\ Running /\ pc[p] = "print_debug_filter"
    /\ IF fr[p].level > MAX_LEVEL
       THEN /\ pc' = [pc EXCEPT ![p] = "idle"]
            /\ fr' = [fr EXCEPT ![p].result = "Err", ![p].max = LEVEL_DEBUG]
       ELSE /\ pc' = [pc EXCEPT ![p] = "print_debug_lock"]
            /\ fr' = [fr EXCEPT ![p].max = LEVEL_DEBUG]
    /\ UNCHANGED <<vga, vga_lock, LEVEL_DEBUG, stdin, fault, ncalls, fifo, last, hist>>

\* print_debug: if level > LEVEL_DEBUG { return Err(Error) }
print_debug_filter(p) ==
    /\ Running /\ pc[p] = "print_debug_filter"
    /\ IF fr[p].level > LEVEL_DEBUG
       THEN /\ pc' = [pc EXCEPT ![p] = "idle"]
            /\ fr' = [fr EXCEPT ![p].result = "Err", ![p].max = LEVEL_DEBUG]
       ELSE /\ pc' = [pc EXCEPT ![p] = "print_debug_lock"]
            /\ fr' = [fr EXCEPT ![p].max = LEVEL_DEBUG]
    /\ UNCHANGED <<vga, vga_lock, LEVEL_DEBUG, stdin, fault, ncalls, fifo, last, hist>>

\* print_debug: let mut vga = VGA.lock()
print_debug_lock(p) ==
    /\ Running /\ pc[p] = "print_debug_lock"
    /\ lock_free(p)
    /\ vga_lock' = p
    /\ pc' = [pc EXCEPT ![p] = "print_debug_match"]
    /\ UNCHANGED <<vga, LEVEL_DEBUG, stdin, fr, fault, ncalls, fifo, last, hist>>

\* print_debug: match level
print_debug_match(p) ==
    /\ Running /\ pc[p] = "print_debug_match"
    /\ IF fr[p].level \in 1 .. 3
       THEN /\ vga' = set_color(vga, Some(TagColor(fr[p].level)))
            /\ fr' = [fr EXCEPT ![p].rest = TagText(fr[p].level), ![p].stage = "tag"]
            /\ pc' = [pc EXCEPT ![p] = "write_str"]
            /\ UNCHANGED vga_lock
       ELSE /\ fr' = [fr EXCEPT ![p].result = "Err"]
            /\ pc' = [pc EXCEPT ![p] = "idle"]
            /\ vga_lock' = 0
            /\ UNCHANGED vga
    /\ UNCHANGED <<LEVEL_DEBUG, stdin, fault, ncalls, fifo, last, hist>>

\* write_str's loop, called by print_debug for the tag and, through write_fmt,
\* for the text; when the text is out print_debug returns and drops its guard
write_str(p) ==
    /\ Running /\ pc[p] = "write_str"
    /\ IF fr[p].rest # <<>>
       THEN /\ fr' = [fr EXCEPT ![p].c = Head(fr[p].rest), ![p].rest = Tail(fr[p].rest)]
            /\ pc' = [pc EXCEPT ![p] = "putchar_lock"]
            /\ UNCHANGED <<vga, vga_lock>>
       ELSE IF fr[p].stage = "tag"
       THEN /\ vga' = set_color(vga, Some(VgaTextColorCode_new(VgaTextColor.White,
                                                             VgaTextColor.Black)))
            /\ fr' = [fr EXCEPT ![p].rest = fr[p].text, ![p].stage = "fmt"]
            /\ UNCHANGED <<pc, vga_lock>>
       ELSE /\ fr' = [fr EXCEPT ![p].stage = "none", ![p].result = "Ok"]
            /\ pc' = [pc EXCEPT ![p] = "idle"]
            /\ vga_lock' = 0
            /\ UNCHANGED vga
    /\ UNCHANGED <<LEVEL_DEBUG, stdin, fault, ncalls, fifo, last, hist>>

\* pinfo!, pdev!, pdebug!: the format string around the caller's message
MacroText(level, msg) ==
    LET sgr == CASE level = 1 -> <<57, 50>> [] level = 2 -> <<57, 52>> [] level = 3 -> <<57, 51>>
        tag == CASE level = 1 -> <<91, 73, 78, 70, 79, 93>>
                 [] level = 2 -> <<91, 68, 69, 86, 93>>
                 [] level = 3 -> <<91, 68, 69, 66, 85, 71, 93>>
        pad == CASE level = 1 -> <<32, 32>> [] level = 2 -> <<32, 32, 32>> [] level = 3 -> <<32>>
    IN <<ESC, LBRACKET>> \o sgr \o <<CH_m>> \o tag \o <<ESC, LBRACKET, CH_m>> \o pad
       \o msg \o <<LF>>

(***************************************************************************)
(* put2stdin and getchar: one critical section of STDIN_BUFFER each        *)
(***************************************************************************)
\* the bounded queue the ring buffer is to implement: a full queue drops the new byte
fifo_push(q, data) == IF Len(q) < STDIN_BUFFER_SIZE THEN Append(q, data) ELSE q
fifo_pop(q) == IF q = <<>> THEN q ELSE Tail(q)
fifo_pop_value(q) == IF q = <<>> THEN None ELSE Some(Head(q))

put2stdin(p, c) ==
    /\ Running /\ pc[p] = "idle"
    /\ stdin' = push(stdin, c)
    /\ fifo' = fifo_push(fifo, c)
    /\ last' = [op |-> "push", data |-> c, ret |-> None, exp |-> None]
    /\ UNCHANGED <<vga, vga_lock, LEVEL_DEBUG, pc, fr, fault, ncalls, hist>>

getchar(p) ==
    /\ Running /\ pc[p] = "idle"
    /\ stdin' = pop(stdin)
    /\ fifo' = fifo_pop(fifo)
    /\ last' = [op |-> "pop", data |-> 0, ret |-> pop_value(stdin), exp |-> fifo_pop_value(fifo)]
    /\ UNCHANGED <<vga, vga_lock, LEVEL_DEBUG, pc, fr, fault, ncalls, hist>>

(***************************************************************************)
(* Specifications                                                          *)
(***************************************************************************)
TextBytes == {65, 66, LF, CR, BS, ESC}                       \* 'A', 'B'
SgrBytes == {ESC, LBRACKET, CH_0 + 9, CH_0 + 2, CH_m, 65, LF}    \* '9', '2', 'A'
LogBytes == {65, ESC}
Levels == 0 .. (MAX_LEVEL + 1)
Messages == {<<>>, <<65>>}
StdinBytes == {1, 2}

\* the steps inside putchar
PutcharSteps(p) == putchar_lock(p) \/ putchar_body(p) \/ putchar_clamp(p)

\* callers writing text and carriage control
NextText ==
    \E p \in Solo :
        \/ init_early(p)
        \/ \E c \in TextBytes : putchar_call(p, c)
        \/ PutcharSteps(p)

\* callers writing escape sequences
NextSgr ==
    \E p \in Solo :
        \/ init_early(p)
        \/ \E c \in SgrBytes : putchar_call(p, c)
        \/ PutcharSteps(p)

\* callers of the levelled print
NextLog ==
    \E p \in Solo :
        \/ init_early(p)
        \/ \E level \in Levels : set_max_level(p, level)
        \/ \E c \in LogBytes : putchar_call(p, c)
        \/ \E level \in Levels, msg \in Messages : print_debug_call(p, level, msg)
        \/ \E level \in 1 .. MAX_LEVEL, msg \in Messages :
                print_debug_call(p, level, MacroText(level, msg))
        \/ print_debug_filter(p) \/ print_debug_lock(p) \/ print_debug_match(p)
        \/ write_str(p)
        \/ PutcharSteps(p)

\* producers and consumers of the input buffer
NextStdin ==
    \E p \in Solo :
        \/ \E c \in StdinBytes : put2stdin(p, c)
        \/ getchar(p)

\* two contexts calling putchar concurrently
ConcBytes == {65, LF, ESC}
NextConc ==
    \E p \in Procs :
        \/ init_early(p)
        \/ \E c \in ConcBytes : putchar_call(p, c)
        \/ PutcharSteps(p)

\* two contexts calling the levelled print and putchar concurrently
NextConcLog ==
    \E p \in Procs :
        \/ init_early(p)
        \/ putchar_call(p, 66)
        \/ \E level \in 1 .. 2, msg \in Messages : print_debug_call(p, level, msg)
        \/ print_debug_filter(p) \/ print_debug_lock(p) \/ print_debug_match(p)
        \/ write_str(p)
        \/ PutcharSteps(p)

Spec == Init /\ [][NextText]_vars
SpecSgr == Init /\ [][NextSgr]_vars
SpecLog == Init /\ [][NextLog]_vars
SpecStdin == Init /\ [][NextStdin]_vars
SpecConc == Init /\ [][NextConc]_vars
SpecConcLog == Init /\ [][NextConcLog]_vars


(***************************************************************************)
(* Claims                                                                  *)
(***************************************************************************)
Idle(p) == pc[p] = "idle"

\* C1: no console operation tries to take the console lock while it holds it
\* (so no caller waits for itself and every call returns).
C1_NoReacquire ==
    \A p \in Procs :
        ~(pc[p] \in {"putchar_lock", "print_debug_lock"} /\ vga_lock = p)

\* C2: on an initialised console that has not met backspace at column 0 (or any
\* other panic) the cursor is inside the grid, 0 <= current_x < WIDTH and
\* 0 <= current_y < HEIGHT, in every state between operations; current_y = HEIGHT
\* is seen only inside putchar between the cursor advance and the scroll.
C2_CursorInRange ==
    (Running /\ vga.buffer_init) =>
        /\ vga.current_x \in Cols
        /\ vga.current_y \in 0 .. VGA_BUFFER_HEIGHT
        /\ vga.current_y = VGA_BUFFER_HEIGHT => \E p \in Procs : pc[p] = "putchar_clamp"

\* C2 witness: the cursor is one row past the grid just before the scroll
C2_Transient ==
    /\ Running
    /\ \E p \in Procs : pc[p] = "putchar_clamp"
    /\ vga.current_y = VGA_BUFFER_HEIGHT


\* the bytes the ring buffer holds, oldest first
RingContents(s) ==
    [i \in 1 .. s.size |-> s.buffer[(s.head + i - 1) % STDIN_BUFFER_SIZE]]

\* C3: the ring buffer is a bounded FIFO queue: it always holds the accepted and
\* not yet popped bytes in push order (also across index wraparound), pop returns
\* the oldest of them and removes it, or returns None from an empty buffer and
\* changes nothing.
C3_Fifo ==
    /\ [](/\ RingContents(stdin) = fifo
          /\ last.op = "pop" => last.ret = last.exp)
    /\ [][(last'.op = "pop" /\ stdin.size = 0) => (stdin' = stdin /\ last'.ret = None)]_vars

\* C3 witness: a pop returned the oldest byte from a buffer whose indices have wrapped
C3_WrappedPop ==
    /\ last.op = "pop" /\ last.ret = Some(2)
    /\ stdin.size = 2 /\ stdin.tail < stdin.head
    /\ fifo = <<1, 2>>

\* C4: push on a full ring buffer changes neither the stored bytes nor head, tail
\* or size, and raises nothing.
C4_FullPushNoop ==
    [][(last'.op = "push" /\ stdin.size = STDIN_BUFFER_SIZE) =>
            (stdin' = stdin /\ fault' = "none")]_vars

\* C4 witness: the buffer is full and the byte pushed last is not in it
C4_Dropped ==
    /\ stdin.size = STDIN_BUFFER_SIZE
    /\ last.op = "push"
    /\ \A i \in Slots : stdin.buffer[i] # last.data

\* the step in which caller p's putchar scrolls
ScrollStep(p) ==
    /\ pc[p] = "putchar_clamp" /\ vga.current_y >= VGA_BUFFER_HEIGHT
    /\ pc'[p] # "putchar_clamp" /\ fault' = "none"

\* C5: when putchar scrolls by n lines, n <= HEIGHT, every row r < HEIGHT - n holds
\* afterwards what row r + n held before the scroll, and current_y is smaller by n.
C5_ScrollMovesRows ==
    [][\A p \in Procs : ScrollStep(p) =>
            LET n == vga.current_y - VGA_BUFFER_HEIGHT + 1
            IN /\ n <= VGA_BUFFER_HEIGHT
               /\ \A r \in Rows : r < VGA_BUFFER_HEIGHT - n => vga'.chars[r] = vga.chars[r + n]
               /\ vga'.current_y = vga.current_y - n]_vars

\* C5 witness: after a scroll the glyph of the second row is in row 0 and the last
\* row holds what the copy read behind the grid
C5_Scrolled ==
    /\ Running /\ \A p \in Procs : Idle(p)
    /\ vga.chars[0][0].ch = 65
    /\ vga.chars[VGA_BUFFER_HEIGHT - 1][0] \in BeyondCells
    /\ vga.current_y = VGA_BUFFER_HEIGHT - 1


\* the cells of row r from column 0 on are the bytes in the colour
RowHolds(r, bytes, color) ==
    \A i \in 1 .. Len(bytes) : vga.chars[r][i - 1] = VgaTextChar(bytes[i], color)

\* WIDTH printable bytes were written from column 0 in the normal (or done) state
\* and the last putchar has returned
LineDone ==
    /\ Running /\ \A p \in Procs : Idle(p)
    /\ Len(hist.line) = VGA_BUFFER_WIDTH

\* C6 as claimed: from column 0 of any row y0 in the normal state, WIDTH printable
\* bytes leave current_x = 0 and current_y = y0 + 1 with the i-th byte in column i
\* of row y0 in the current colour.
C6_AnyRow ==
    LineDone =>
        /\ vga.current_x = 0
        /\ vga.current_y = hist.y0 + 1
        /\ RowHolds(hist.y0, hist.line, vga.current_color)

\* C6 amended: the same from a row y0 < HEIGHT - 1; from the last row the putchar
\* of the last byte scrolls by one line, current_y stays HEIGHT - 1 and the bytes
\* are in row HEIGHT - 2.
C6_LineWrap ==
    LineDone =>
        /\ vga.current_x = 0
        /\ IF hist.y0 < VGA_BUFFER_HEIGHT - 1
           THEN /\ vga.current_y = hist.y0 + 1
                /\ RowHolds(hist.y0, hist.line, vga.current_color)
           ELSE /\ vga.current_y = VGA_BUFFER_HEIGHT - 1
                /\ RowHolds(VGA_BUFFER_HEIGHT - 2, hist.line, vga.current_color)

\* C6 witness: a full line of glyphs in a colour other than the default
C6_ColouredLine ==
    /\ LineDone
    /\ hist.y0 = 0
    /\ vga.current_color # DefaultColor
    /\ vga.current_y = 1

\* the interpreter is inside a sequence: SawEscape, SawBracket or Digits
InSequence(v) == v.state.k \in {"Start", "LeftBrackets", "Value"}

\* a byte that is neither a digit nor '[' nor 'm'
Unrecognised(ch) == ~IsDigit(ch) /\ ch # LBRACKET /\ ch # CH_m

\* the step in which caller p's putchar processes its byte without a panic
ByteStep(p) == pc[p] = "putchar_body" /\ pc'[p] # "putchar_body" /\ fault' = "none"

SameGrid == vga'.chars = vga.chars
SameCursor == vga'.current_x = vga.current_x /\ vga'.current_y = vga.current_y

\* C7 as claimed: a swallowed byte changes neither grid nor cursor, and an
\* unrecognised byte met inside a sequence is written as a glyph at the cursor in
\* the current colour and leaves the interpreter in the normal state.
C7_AbortWritesGlyph ==
    [][\A p \in Procs : ByteStep(p) =>
            /\ vga'.state # PutChar => (SameGrid /\ SameCursor)
            /\ (InSequence(vga) /\ Unrecognised(fr[p].c)) =>
                    /\ vga'.state = PutChar
                    /\ vga'.chars[vga.current_y][vga.current_x] =
                            VgaTextChar(fr[p].c, vga.current_color)]_vars

\* C7 amended: a swallowed byte changes neither grid nor cursor, and an
\* unrecognised byte met inside a sequence leaves the interpreter in the normal
\* state and is printed as the normal state prints it: written as a glyph at the
\* cursor in the current colour, nothing else on the grid changing, unless it is
\* CR, LF or backspace, which are carriage control (LF writes nothing and moves
\* the cursor to column 0 of the next row).
C7_AbortPrints ==
    [][\A p \in Procs : ByteStep(p) =>
            /\ vga'.state # PutChar => (SameGrid /\ SameCursor)
            /\ (InSequence(vga) /\ Unrecognised(fr[p].c)) =>
                    /\ vga'.state = PutChar
                    /\ pc'[p] = "putchar_clamp"
                    /\ vga'.current_color = vga.current_color
                    /\ IsGlyph(fr[p].c) =>
                            /\ vga'.chars[vga.current_y][vga.current_x] =
                                    VgaTextChar(fr[p].c, vga.current_color)
                            /\ \A r \in Rows, c \in Cols :
                                    <<r, c>> # <<vga.current_y, vga.current_x>> =>
                                        vga'.chars[r][c] = vga.chars[r][c]
                    /\ fr[p].c = LF =>
                            /\ SameGrid
                            /\ vga'.current_x = 0 /\ vga'.current_y = vga.current_y + 1]_vars

\* C7 witness: ESC '[' '9' was aborted by 'A', which is on the grid
C7_Aborted ==
    /\ \E p \in Procs : pc[p] = "putchar_clamp" /\ fr[p].c = 65
    /\ hist.seq = <<>>
    /\ vga.state = PutChar
    /\ vga.chars[0][0] = VgaTextChar(65, DefaultColor)
    /\ vga.current_x = 1 /\ ncalls = 4


\* the value of decimal digits
RECURSIVE Decimal(_)
Decimal(ds) ==
    IF ds = <<>> THEN 0
    ELSE Decimal(SubSeq(ds, 1, Len(ds) - 1)) * 10 + (ds[Len(ds)] - CH_0)

\* q is ESC '[' d1..dk 'm', k >= 1
IsSgr(q) ==
    /\ Len(q) >= 4 /\ SgrPrefix(q)
    /\ q[Len(q)] = CH_m /\ IsDigit(q[Len(q) - 1])

\* the value accumulated from the digits of ESC '[' d1..dk 'm', in 8 bits
SgrValue(q) == Decimal(SubSeq(q, 3, Len(q) - 1)) % U8

\* the colour ESC '[' d1..dk 'm' selects
SgrColor(q) ==
    LET c == ConsoleColorCode_try_from(SgrValue(q))
    IN IF c = "None" THEN VgaTextColorCode_new(VgaTextColor.White, VgaTextColor.Black)
       ELSE VgaTextColorCode_new(from_console_color(c), VgaTextColor.Black)

\* C8: once ESC '[' d1..dk 'm' (k >= 1) has been fed from the normal or the done
\* state, the interpreter is in the done state, grid and cursor are as they were
\* before the ESC, and current_color is the native colour of the logical colour the
\* accumulated value maps to, on black, or the default colour when it maps to
\* none; a printable byte fed next is written at the cursor in that colour and
\* leaves the interpreter in the normal state.
C8_SgrSetsColor ==
    /\ IsSgr(hist.seq) =>
            /\ vga.state = End
            /\ vga.chars = hist.snap.chars
            /\ vga.current_x = hist.snap.current_x
            /\ vga.current_y = hist.snap.current_y
            /\ vga.current_color = SgrColor(hist.seq)
    /\ (Len(hist.seq) >= 5 /\ IsSgr(SubSeq(hist.seq, 1, Len(hist.seq) - 1))) =>
            LET q == SubSeq(hist.seq, 1, Len(hist.seq) - 1)
                x == hist.seq[Len(hist.seq)]
            IN /\ vga.state = PutChar
               /\ vga.current_color = SgrColor(q)
               /\ (IsPrintable(x) /\ \E p \in Procs : pc[p] = "putchar_clamp") =>
                    vga.chars[hist.snap.current_y][hist.snap.current_x] =
                        VgaTextChar(x, SgrColor(q))

\* C8 witness: ESC '[' '9' '2' 'm' 'A' has put a light green 'A' on the grid
C8_GreenA ==
    /\ hist.seq = <<ESC, LBRACKET, CH_0 + 9, CH_0 + 2, CH_m, 65>>
    /\ \E p \in Procs : pc[p] = "putchar_clamp"
    /\ vga.chars[0][0] = VgaTextChar(65, VgaTextColor.LightGreen)
    /\ vga.state = PutChar

\* print_debug(level, ..) is filtered when the maximum level it read is max
Filtered(level, max) == level > max \/ level = 0 \/ level > 3

\* C9: a print_debug call whose level is above the maximum level it read, or is 0 or
\* above 3, never writes: the console (grid, cursor, current_color, interpreter
\* state) stays as the call found it, and the call returns Err.
C9_FilteredNoop ==
    \A p \in Procs :
        (/\ fr[p].fn = "print_debug"
         /\ pc[p] # "print_debug_filter"
         /\ Filtered(fr[p].level, fr[p].max)) =>
            /\ vga = fr[p].vga0
            /\ pc[p] \in {"print_debug_lock", "print_debug_match", "idle"}
            /\ Idle(p) => fr[p].result = "Err"

\* C9 witness: level 2 was filtered at maximum level 1 on a console that holds text
C9_Level2AtMax1 ==
    \E p \in Procs :
        /\ Idle(p) /\ fr[p].fn = "print_debug" /\ fr[p].result = "Err"
        /\ fr[p].level = 2 /\ fr[p].max = 1 /\ LEVEL_DEBUG = 1
        /\ fr[p].text = <<65>>
        /\ vga.chars[0][0].ch = 65

\* the steps of a call in progress
CallSteps(p) ==
    \/ print_debug_filter(p) \/ print_debug_lock(p) \/ print_debug_match(p)
    \/ write_str(p)
    \/ PutcharSteps(p)

\* the levelled print with every caller that can take a step taking one
SpecLogFair == SpecLog /\ \A p \in Procs : WF_vars(CallSteps(p))

\* C10: a print_debug call with 1 <= level <= maximum level writes its tag and its
\* text and returns with the default colour as current_color.
C10_PrintReturns ==
    \A p \in Procs :
        (pc[p] = "print_debug_match" /\ fr[p].level \in 1 .. 3) ~>
            (/\ Idle(p) /\ fr[p].result = "Ok"
             /\ vga.current_color = DefaultColor)

\* the step in which set_max_level was called
SetLevelStep == last'.op = "set_max_level" /\ last' # last

\* C11: set_max_level(level) stores level as the maximum level when level <= 3 and
\* panics, leaving the stored maximum as it was, when level > 3; the maximum level
\* is in 0..3 in every state.
C11_MaxLevelInRange ==
    /\ [](LEVEL_DEBUG \in 0 .. 3)
    /\ [][SetLevelStep =>
            IF last'.data <= 3
            THEN LEVEL_DEBUG' = last'.data /\ fault' = fault
            ELSE LEVEL_DEBUG' = LEVEL_DEBUG /\ fault' = "level"]_vars

\* C11 witness: set_max_level(4) panicked after set_max_level(2) had stored 2
C11_Rejected4 ==
    /\ fault = "level" /\ last.op = "set_max_level" /\ last.data = 4
    /\ LEVEL_DEBUG = 2

\* caller p's levelled print holds the console: from its match on level to its return
InMessage(p) == fr[p].fn = "print_debug" /\ fr[p].stage # "none"

\* the concurrent levelled print with every caller that can take a step taking one
SpecConcLogFair == SpecConcLog /\ \A p \in Procs : WF_vars(CallSteps(p))

\* C12: while one caller's levelled print is between the first and the last byte of
\* its message no other caller's byte is processed by the console, and a levelled
\* print that has passed the filter gets the whole of its tag and text processed
\* and returns.
C12_MessageContiguous ==
    /\ [][\A p, q \in Procs : (p # q /\ InMessage(p)) => ~ByteStep(q)]_vars
    /\ \A p \in Procs :
            (pc[p] = "print_debug_match" /\ fr[p].level \in 1 .. 3) ~>
                (Idle(p) /\ fr[p].fn = "print_debug" /\ fr[p].rest = <<>>
                 /\ fr[p].stage = "none" /\ fr[p].result = "Ok")

\* caller p is inside putchar's critical section
InSection(p) == pc[p] \in {"putchar_body", "putchar_clamp"}

\* the consoles one putchar(c) alone, from lock to return, can leave from console v
AtomicPutchar(v, c) ==
    LET v1 == process_char(v, c)
        v2 == putchar_wrap(putchar_match(v1, c))
    IN IF v1.state # PutChar THEN {v1}
       ELSE IF v2.current_y >= VGA_BUFFER_HEIGHT
       THEN {scroll_up(v2, scroll_lines(v2), beyond) :
                beyond \in [BeyondRead(scroll_lines(v2)) -> BeyondCells]}
       ELSE {v2}

\* C13: concurrent putchar calls are serialized by the console lock: at most one
\* caller is inside the critical section, the console changes only in steps of
\* that caller, and when a call leaves the section the console is what that one
\* call makes, on its own, of the console it found when it took the lock; the
\* calls take effect one at a time in the order they take the lock, each caller's
\* own calls in submission order.
C13_Serialized ==
    /\ [](\A p, q \in Procs : (InSection(p) /\ InSection(q)) => (p = q /\ vga_lock = p))
    /\ [][(vga' # vga /\ vga.buffer_init) =>
                \E p \in Procs : InSection(p) /\ pc'[p] # pc[p]]_vars
    /\ [][\A p \in Procs :
            (InSection(p) /\ pc'[p] = "idle" /\ fault' = "none") =>
                vga' \in AtomicPutchar(fr[p].v0, fr[p].c)]_vars

\* C13 witness: caller 2 waits for the lock while caller 1 is inside putchar, on a
\* console that holds glyphs written by both
C13_Waiting ==
    /\ pc[1] = "putchar_clamp" /\ pc[2] = "putchar_lock" /\ vga_lock = 1
    /\ fr[1].v0.current_x = 1 /\ fr[1].v0.current_y = 1
    /\ vga.chars[0][0].ch = 65 /\ vga.chars[0][1].ch = 65 /\ vga.chars[1][0].ch = 65

\* C14: on an initialised console no putchar step panics (backspace at column 0
\* aside), and the value accumulated from the digits after ESC '[' as v * 10 + digit
\* never exceeds 255.
C14_NoFault ==
    vga.buffer_init =>
        /\ fault \in {"none", "backspace"}
        /\ \A p \in Procs :
                (pc[p] = "putchar_body" /\ vga.state.k = "Value" /\ IsDigit(fr[p].c)) =>
                    vga.state.v * 10 + (fr[p].c - CH_0) <= 255

\* C15: the init_early step on the unbound console binds it and leaves every cell
\* holding a space in the default colour, the cursor and the interpreter state as
\* they were.
C15_InitClears ==
    [][(~vga.buffer_init /\ vga'.buffer_init) =>
            /\ \A r \in Rows, c \in Cols :
                    vga'.chars[r][c] =
                        VgaTextChar(32, VgaTextColorCode_new(VgaTextColor.White,
                                                             VgaTextColor.Black))
            /\ SameCursor
            /\ vga'.state = vga.state]_vars

\* C15 witness: init_early has run, after set_max_level(1), and nothing was written
C15_Cleared ==
    /\ vga.buffer_init /\ ncalls = 0 /\ LEVEL_DEBUG = 1
    /\ \A r \in Rows, c \in Cols : vga.chars[r][c].ch = 32
    /\ vga.current_x = 0 /\ vga.current_y = 0 /\ vga.state = PutChar

\* byte ch does not continue the sequence the interpreter of console v is in
Aborts(v, ch) ==
    \/ v.state.k = "Start" /\ ch # LBRACKET
    \/ v.state.k \in {"LeftBrackets", "Value"} /\ ~IsDigit(ch) /\ ch # CH_m

\* C16: a byte that does not continue the sequence moves the interpreter to the
\* normal state and is swallowed: its putchar writes no cell, leaves cursor and
\* current_color as they were and returns.
C16_AbortSwallows ==
    [][\A p \in Procs : (ByteStep(p) /\ Aborts(vga, fr[p].c)) =>
            /\ vga'.state = PutChar
            /\ SameGrid /\ SameCursor
            /\ vga'.current_color = vga.current_color
            /\ pc'[p] = "idle"]_vars

\* C17: a scroll by n lines leaves every cell of the rows HEIGHT - n .. HEIGHT - 1
\* as it was before the scroll.
C17_BottomRowsStale ==
    [][\A p \in Procs : ScrollStep(p) =>
            LET n == vga.current_y - VGA_BUFFER_HEIGHT + 1
            IN \A r \in Rows : r >= VGA_BUFFER_HEIGHT - n => vga'.chars[r] = vga.chars[r]]_vars

\* C18: 0 <= size <= N, 0 <= head < N, 0 <= tail < N and tail = (head + size) mod N
C18_RingInvariant ==
    /\ stdin.size \in 0 .. STDIN_BUFFER_SIZE
    /\ stdin.head \in 0 .. (STDIN_BUFFER_SIZE - 1)
    /\ stdin.tail \in 0 .. (STDIN_BUFFER_SIZE - 1)
    /\ stdin.tail = (stdin.head + stdin.size) % STDIN_BUFFER_SIZE

\* C18 witness: the buffer is full with head and tail wrapped to the same slot, not 0
C18_FullWrapped ==
    /\ stdin.size = STDIN_BUFFER_SIZE
    /\ stdin.head = stdin.tail /\ stdin.head # 0

\* C19: whenever putchar is about to scroll by n lines the copy moves exactly
\* (HEIGHT - n) * WIDTH cells, so its last source cell is inside the grid and no
\* cell behind the grid is read.
C19_CopyInsideGrid ==
    \A p \in Procs :
        (pc[p] = "putchar_clamp" /\ vga.current_y >= VGA_BUFFER_HEIGHT) =>
            LET n == vga.current_y - VGA_BUFFER_HEIGHT + 1
            IN /\ scroll_count(n) = (VGA_BUFFER_HEIGHT - n) * VGA_BUFFER_WIDTH
               /\ n * VGA_BUFFER_WIDTH + scroll_count(n)
                        <= VGA_BUFFER_HEIGHT * VGA_BUFFER_WIDTH
               /\ BeyondRead(n) = {}

\* C20: when the clamp runs current_y is at most HEIGHT, so putchar scrolls by one
\* line only and the indexing of row HEIGHT by a scroll of HEIGHT lines never
\* happens.
C20_ScrollByOne ==
    vga.buffer_init =>
        /\ fault # "index"
        /\ \A p \in Procs : pc[p] = "putchar_clamp" =>
                /\ vga.current_y <= VGA_BUFFER_HEIGHT
                /\ vga.current_y = VGA_BUFFER_HEIGHT =>
                        (vga.current_y - VGA_BUFFER_HEIGHT + 1 = 1 /\ 1 # VGA_BUFFER_HEIGHT)

\* C20 witness: a line feed on the last row is about to scroll a grid that has
\* scrolled before
C20_SecondScroll ==
    /\ \E p \in Procs : pc[p] = "putchar_clamp" /\ fr[p].c = LF
    /\ vga.current_y = VGA_BUFFER_HEIGHT
    /\ ncalls > VGA_BUFFER_HEIGHT

====
